---- MODULE Spec2Model ----
(***************************************************************************)
(* A model of ExcelCreator (src/excel_creator.py): the workbook, its       *)
(* sheets, the cell grid of each sheet with the extent the worksheet       *)
(* tracks, and the builder operations that mutate them.                    *)
(*                                                                         *)
(* The worksheet object is the one of openpyxl: cells are created lazily   *)
(* by ws.cell(row, column), which rejects a row or column below 1;         *)
(* ws.max_row and ws.max_column are computed from the cells that exist     *)
(* (1 for a sheet without cells); ws.append writes below the private       *)
(* counter _current_row, which is 0 for a new sheet and is raised by       *)
(* every cell creation.                                                    *)
(***************************************************************************)
EXTENDS Integers, Sequences, FiniteSets, TLC

\* ------------------------------------------------------------- bounds
MaxRow == 3
MaxCol == 2
MaxOps == 2
MaxSheets == 3
MaxCharts == 1
MaxLoaded == 1

\* ------------------------------------------------------------- values
\* A cell value is a tagged pair, so that text and numbers never meet in
\* one comparison.
None == <<"none", 0>>
Num(n) == <<"int", n>>
Text(s) == <<"str", s>>

\* An optional row argument: <<>> is Python's None, <<n>> the integer n.
NoRow == <<>>
Row(n) == <<n>>

\* Python truthiness of an optional integer (None and 0 are falsy).
Truthy(opt) == opt # NoRow /\ opt[1] # 0

NoStyle == "none"

Max2(a, b) == IF a >= b THEN a ELSE b

SetMax(S) == CHOOSE m \in S : \A x \in S : x <= m

\* ------------------------------------------------------------- styles
DefaultFont == "default"
HeaderFont == "header_font"
HeaderFill == "header_bg_color"
CenterAlignment == "center"

DefaultCell ==
    [value |-> None, font |-> DefaultFont, fill |-> NoStyle,
     border |-> NoStyle, alignment |-> NoStyle]

\* A header cell: the value with the header font, fill and alignment.
HeaderCell(header, cell) ==
    [cell EXCEPT !.value = header, !.font = HeaderFont, !.fill = HeaderFill,
                 !.alignment = CenterAlignment]

\* ------------------------------------------------------------- worksheet
\* A worksheet: title, the cells that exist (a function on the coordinates
\* (row, column) created so far), _current_row, the attached charts, the
\* widths set in column_dimensions (a function on the columns given one) and
\* the conditional formatting rules in the order they were added.
Title(b, n) == [b |-> b, n |-> n]

NewSheet(title) ==
    [title |-> title, cells |-> <<>>, cur |-> 0, charts |-> <<>>,
     widths |-> <<>>, rules |-> <<>>]

Coords(ws) == DOMAIN ws.cells

\* ws.max_row / ws.max_column: the greatest row / column of a cell, 1 if none.
max_row(ws) ==
    IF Coords(ws) = {} THEN 1 ELSE SetMax({p[1] : p \in Coords(ws)})

max_column(ws) ==
    IF Coords(ws) = {} THEN 1 ELSE SetMax({p[2] : p \in Coords(ws)})

\* The cell ws.cell(...) returns at a valid coordinate: the stored one, or a
\* new empty cell.
CellAt(ws, p) == IF p \in Coords(ws) THEN ws.cells[p] ELSE DefaultCell

\* ws.cell(row, column) refuses a coordinate below 1 (ValueError).
ValidCoord(r, c) == r >= 1 /\ c >= 1

\* The sheet after ws.cell(row=r, column=c) for every coordinate (r, c) in
\* the domain of `written`, each cell then left as written[(r, c)]: missing
\* cells are created, and _current_row is raised to the rows touched.
WithCells_dropping_rest(ws, written) ==
    LET new == DOMAIN written
    IN [ws EXCEPT
          !.cells = IF new = {} THEN @ ELSE written,
          !.cur = IF new = {} THEN @ ELSE SetMax({p[1] : p \in new})]

WithCells(ws, written) ==
    LET new == DOMAIN written
    IN [ws EXCEPT
          !.cells = [p \in Coords(ws) \cup new |->
                       IF p \in new THEN written[p] ELSE ws.cells[p]],
          !.cur = IF new = {} THEN @ ELSE Max2(@, SetMax({p[1] : p \in new}))]

\* ws.append(data): a fresh cell per field in row _current_row + 1, and
\* _current_row advanced by one even when data is empty.
ws_append_below_max_row(ws, data) ==
    LET row_idx == max_row(ws) + 1
        new == {<<row_idx, c>> : c \in 1..Len(data)}
    IN [ws EXCEPT
          !.cells = [p \in Coords(ws) \cup new |->
                       IF p \in new
                       THEN [DefaultCell EXCEPT !.value = data[p[2]]]
                       ELSE ws.cells[p]],
          !.cur = row_idx]

ws_append(ws, data) ==
    LET row_idx == ws.cur + 1
        new == {<<row_idx, c>> : c \in 1..Len(data)}
    IN [ws EXCEPT
          !.cells = [p \in Coords(ws) \cup new |->
                       IF p \in new
                       THEN [DefaultCell EXCEPT !.value = data[p[2]]]
                       ELSE ws.cells[p]],
          !.cur = row_idx]

\* The outcome of a call on the active sheet: the sheet afterwards, how the
\* call ended ("ok" or the exception that reached the caller), and whether
\* an error was written to the log.
Outcome(ws, result) == [ws |-> ws, result |-> result, logged |-> FALSE]

\* try: ... except Exception as e: self.logger.error(...): the exception is
\* logged and the call returns normally.
Swallow(out) ==
    IF out.result # "ok" THEN [out EXCEPT !.result = "ok", !.logged = TRUE] ELSE out

\* try: ... except Exception as e: self.logger.error(...); raise
LogAndReraise_swallowing(out) == Swallow(out)

LogAndReraise(out) ==
    IF out.result # "ok" THEN [out EXCEPT !.logged = TRUE] ELSE out

\* ------------------------------------------------------------- inputs
Headers == {[i \in 1..n |-> Text("H")] : n \in 0..MaxCol}

\* Rows of every length up to MaxCol, with an empty first field as in the
\* driver's sample rows, and a row of one text.
DataRows ==
    {[i \in 1..n |-> IF i = 1 THEN None ELSE Text("a")] : n \in 0..MaxCol}
    \cup {<<Text("b")>>}

Fonts == {NoStyle, "data_font"}

StartRows == {NoRow} \cup {Row(n) : n \in -1..MaxRow}

\* ------------------------------------------------------------- state
VARIABLES
    include_header, \* self.include_header
    sheets,         \* self.workbook: the worksheets in order
    active,         \* self.sheet: the index of the active worksheet
    named,          \* the workbook's defined names
    last,           \* the last call: its name, how it ended, whether it logged an error
    ops             \* calls made so far

vars == <<include_header, sheets, active, named, last, ops>>

Active == sheets[active]

Call(op, result, logged) == [op |-> op, result |-> result, logged |-> logged]

\* A workbook read from an existing file (append=True), as an earlier run of
\* the driver saved it: a header row and k data rows numbered in column 1,
\* here without column widths or rules; the reader sets _current_row to
\* max_row.
LoadedSheet(k) ==
    LET dom == (1..(k + 1)) \X (1..MaxCol)
    IN [title |-> Title("Sheet", 0),
        cells |-> [p \in dom |->
                     IF p[1] = 1 THEN HeaderCell(Text("H"), DefaultCell)
                     ELSE IF p[2] = 1 THEN [DefaultCell EXCEPT !.value = Num(p[1] - 1)]
                     ELSE [DefaultCell EXCEPT !.value = Text("a")]],
        cur |-> k + 1,
        charts |-> <<>>,
        widths |-> <<>>,
        rules |-> <<>>]

Init ==
    /\ include_header \in BOOLEAN
    /\ sheets \in {<<NewSheet(Title("Sheet", 0))>>}
                    \cup {<<LoadedSheet(k)>> : k \in 0..MaxLoaded}
    /\ active = 1
    /\ named = {}
    /\ last = Call("__init__", "ok", FALSE)
    /\ ops = 0

\* The model keeps a sheet within MaxRow rows and MaxCol columns.
InBounds(ws) ==
    /\ ws.cur <= MaxRow
    /\ \A p \in Coords(ws) : p[1] <= MaxRow /\ p[2] <= MaxCol
    /\ Len(ws.charts) <= MaxCharts

\* The step every call on the active sheet shares: the sheet becomes out.ws.
Step(op, out) ==
    /\ ops < MaxOps
    /\ ops' = ops + 1
    /\ InBounds(out.ws)
    /\ sheets' = [sheets EXCEPT ![active] = out.ws]
    /\ last' = Call(op, out.result, out.logged)
    /\ UNCHANGED <<include_header, active, named>>

\* ------------------------------------------------------------- add_headers
add_headers_out_unconditional(ws, flag, headers, start_row) ==
    IF headers = <<>> THEN Outcome(ws, "ok")
    ELSE IF ~ValidCoord(start_row, 1) THEN Outcome(ws, "ValueError")
    ELSE Outcome(WithCells(ws, [p \in {<<start_row, c>> : c \in 1..Len(headers)} |->
                                  HeaderCell(headers[p[2]], CellAt(ws, p))]),
                 "ok")

add_headers_out(ws, flag, headers, start_row) ==
    IF ~flag \/ headers = <<>> THEN Outcome(ws, "ok")
    ELSE IF ~ValidCoord(start_row, 1) THEN Outcome(ws, "ValueError")
    ELSE Outcome(WithCells(ws, [p \in {<<start_row, c>> : c \in 1..Len(headers)} |->
                                  HeaderCell(headers[p[2]], CellAt(ws, p))]),
                 "ok")

add_headers(headers, start_row) ==
    Step("add_headers", add_headers_out(Active, include_header, headers, start_row))

\* ------------------------------------------------------------- add_row
\* The branch taken when start_row is truthy: a point write.
add_row_at(ws, data, font, row) ==
    IF data = <<>> THEN Outcome(ws, "ok")
    ELSE IF ~ValidCoord(row, 1) THEN Outcome(ws, "ValueError")
    ELSE Outcome(WithCells(ws, [p \in {<<row, c>> : c \in 1..Len(data)} |->
                                  [CellAt(ws, p) EXCEPT
                                     !.value = data[p[2]],
                                     !.font = IF font # NoStyle THEN font ELSE @]]),
                 "ok")

\* The other branch: ws.append, then the font on the row max_row reports.
add_row_append(ws, data, font) ==
    LET ws1 == ws_append(ws, data)
    IN IF font # NoStyle
       THEN Outcome(WithCells(ws1, [p \in {<<max_row(ws1), c>> : c \in 1..Len(data)} |->
                                      [CellAt(ws1, p) EXCEPT !.font = font]]),
                    "ok")
       ELSE Outcome(ws1, "ok")

add_row_out(ws, data, font, start_row) ==
    IF Truthy(start_row)
    THEN add_row_at(ws, data, font, start_row[1])
    ELSE add_row_append(ws, data, font)

add_row(data, font, start_row) ==
    Step("add_row", add_row_out(Active, data, font, start_row))

\* ------------------------------------------------------------- auto_number_rows
\* range(start_row, max_row + 1) is fixed when the loop starts; its first
\* ws.cell call raises when the row or the column is below 1.
auto_number_rows_out_zero_based(ws, start_row, column) ==
    LET rows == start_row..max_row(ws)
    IN IF rows = {} THEN Outcome(ws, "ok")
       ELSE IF ~ValidCoord(start_row, column) THEN Outcome(ws, "ValueError")
       ELSE Outcome(WithCells(ws, [p \in {<<r, column>> : r \in rows} |->
                                     [CellAt(ws, p) EXCEPT
                                        !.value = Num(p[1] - start_row)]]),
                    "ok")

auto_number_rows_out(ws, start_row, column) ==
    LET rows == start_row..max_row(ws)
    IN IF rows = {} THEN Outcome(ws, "ok")
       ELSE IF ~ValidCoord(start_row, column) THEN Outcome(ws, "ValueError")
       ELSE Outcome(WithCells(ws, [p \in {<<r, column>> : r \in rows} |->
                                     [CellAt(ws, p) EXCEPT
                                        !.value = Num(p[1] - start_row + 1)]]),
                    "ok")

auto_number_rows(start_row, column) ==
    Step("auto_number_rows", auto_number_rows_out(Active, start_row, column))

\* ------------------------------------------------------------- apply_zebra_striping
\* The fill of a row: color1 when row % 2 is non-zero, color2 otherwise.
fill_color_swapped(row, color1, color2) == IF row % 2 # 0 THEN color2 ELSE color1

fill_color(row, color1, color2) == IF row % 2 # 0 THEN color1 ELSE color2

\* self.sheet[row] is the cells of columns 1..max_column of that row, created
\* where missing; the key "0" is refused (IndexError), a negative one does
\* not parse (ValueError).
apply_zebra_striping_out(ws, start_row, end_row, color1, color2) ==
    LET rows == start_row..end_row
    IN IF rows = {} THEN Outcome(ws, "ok")
       ELSE IF start_row < 0 THEN Outcome(ws, "ValueError")
       ELSE IF start_row = 0 THEN Outcome(ws, "IndexError")
       ELSE Outcome(WithCells(ws, [p \in rows \X (1..max_column(ws)) |->
                                     [CellAt(ws, p) EXCEPT
                                        !.fill = fill_color(p[1], color1, color2)]]),
                    "ok")

apply_zebra_striping(start_row, end_row, color1, color2) ==
    Step("apply_zebra_striping",
         apply_zebra_striping_out(Active, start_row, end_row, color1, color2))

\* ------------------------------------------------------------- import_from_csv / import_from_json
\* enumerate(rows, start=start_row): the k-th row goes through add_row with
\* start_row = start_row + k - 1 and no font; an exception ends the loop with
\* the rows written so far kept.
RECURSIVE import_rows_from_next(_, _, _, _)
import_rows_from_next(ws, rows, k, start_row) ==
    IF k > Len(rows) THEN Outcome(ws, "ok")
    ELSE LET out == add_row_out(ws, rows[k], NoStyle, Row(start_row + k))
         IN IF out.result # "ok" THEN out
            ELSE import_rows_from_next(out.ws, rows, k + 1, start_row)

RECURSIVE import_rows(_, _, _, _)
import_rows(ws, rows, k, start_row) ==
    IF k > Len(rows) THEN Outcome(ws, "ok")
    ELSE LET out == add_row_out(ws, rows[k], NoStyle, Row(start_row + k - 1))
         IN IF out.result # "ok" THEN out
            ELSE import_rows(out.ws, rows, k + 1, start_row)

\* A file is <<>> when the path does not exist, else <<rows>>.
NoFile == <<>>
File(rows) == <<rows>>

import_out(ws, file, start_row) ==
    IF file = NoFile THEN Outcome(ws, "FileNotFoundError")
    ELSE import_rows(ws, file[1], 1, start_row)

\* csv.reader yields every field as text; a blank line is an empty row.
CsvFiles ==
    {NoFile, File(<<>>), File(<<<<Text("x"), Text("y")>>>>),
     File(<<<<Text("x")>>, <<Text("y"), Text("z")>>>>),
     File(<<<<>>, <<Text("x")>>>>)}

\* json.load yields a list of objects; a row is the object's values in key
\* order.
JsonFiles ==
    {NoFile, File(<<<<Num(7), Text("x")>>>>),
     File(<<<<Num(7)>>, <<None, Text("y")>>>>)}

import_from_csv(csv_file, start_row) ==
    Step("import_from_csv", import_out(Active, csv_file, start_row))

import_from_json(json_file, start_row) ==
    Step("import_from_json", import_out(Active, json_file, start_row))

\* The default colours and the same two exchanged.
ColorPairs == {<<"FFFFFF", "F0F0F0">>, <<"F0F0F0", "FFFFFF">>}

\* ------------------------------------------------------------- ranges
\* A range text, by what the worksheet's parser makes of it: text that is
\* no address, a single cell ("A1"), or two corners with a colon ("A1:B2").
BadRange == [kind |-> "bad", r1 |-> 0, c1 |-> 0, r2 |-> 0, c2 |-> 0]
CellRef(r, c) == [kind |-> "cell", r1 |-> r, c1 |-> c, r2 |-> r, c2 |-> c]
RangeRef(r1, c1, r2, c2) == [kind |-> "range", r1 |-> r1, c1 |-> c1, r2 |-> r2, c2 |-> c2]

RangeTexts ==
    {BadRange, CellRef(1, 1), CellRef(MaxRow, MaxCol),
     RangeRef(1, 1, 1, 1), RangeRef(1, 1, 1, MaxCol), RangeRef(2, 1, MaxRow, 1),
     RangeRef(2, 2, MaxRow, MaxCol), RangeRef(MaxRow, MaxCol, 1, 1)}

\* The coordinates self.sheet[cell_range] creates: the one cell of a single
\* address, every cell of rows r1..r2 and columns c1..c2 of a two-corner
\* range (none when a corner pair is reversed), nothing for bad text.
RangeCoords(rng) ==
    IF rng.kind = "bad" THEN {} ELSE (rng.r1..rng.r2) \X (rng.c1..rng.c2)

\* for row in self.sheet[cell_range]: for cell in row: ...   Bad text raises
\* ValueError; a single address yields a Cell, which the cell lookup has
\* created and which is not iterable (TypeError); a two-corner range yields
\* its rows of cells, each left as written[(r, c)].
for_each_cell(ws, rng, written) ==
    IF rng.kind = "bad" THEN Outcome(ws, "ValueError")
    ELSE IF rng.kind = "cell"
    THEN Outcome(WithCells(ws, [p \in RangeCoords(rng) |-> CellAt(ws, p)]), "TypeError")
    ELSE Outcome(WithCells(ws, written), "ok")

\* ------------------------------------------------------------- apply_cell_style
StyleArg(font, fill, border, alignment) ==
    [font |-> font, fill |-> fill, border |-> border, alignment |-> alignment]

StyleArgs ==
    {StyleArg("bold", "AAAAAA", NoStyle, NoStyle),
     StyleArg(NoStyle, NoStyle, "thin", "left")}

Styled(cell, style) ==
    [cell EXCEPT !.font = IF style.font # NoStyle THEN style.font ELSE @,
                 !.fill = IF style.fill # NoStyle THEN style.fill ELSE @,
                 !.border = IF style.border # NoStyle THEN style.border ELSE @,
                 !.alignment = IF style.alignment # NoStyle THEN style.alignment ELSE @]

apply_cell_style_out(ws, cell_range, style) ==
    Swallow(for_each_cell(ws, cell_range,
                          [p \in RangeCoords(cell_range) |-> Styled(CellAt(ws, p), style)]))

apply_cell_style(cell_range, style) ==
    Step("apply_cell_style", apply_cell_style_out(Active, cell_range, style))

\* ------------------------------------------------------------- apply_formula
Formula == Text("=B2*2")

apply_formula_out(ws, cell_range, formula) ==
    Swallow(for_each_cell(ws, cell_range,
                          [p \in RangeCoords(cell_range) |->
                             [CellAt(ws, p) EXCEPT !.value = formula]]))

apply_formula(cell_range, formula) ==
    Step("apply_formula", apply_formula_out(Active, cell_range, formula))

\* ------------------------------------------------------------- create_chart
ChartKinds == {"bar", "line", "pie", "scatter"}

ChartTypes == ChartKinds \cup {"radar"}

Ref(c1, r1, c2, r2) ==
    [min_col |-> c1, min_row |-> r1, max_col |-> c2, max_row |-> r2]

ChartRefs ==
    {Ref(1, 1, 1, 2), Ref(1, 1, MaxCol, MaxRow + 1), Ref(1, 1, MaxCol + 1, 1),
     Ref(0, 1, 1, 1)}

\* The optional arguments: axis titles given or not, legend, data labels.
ChartOption(axis_titles, include_legend, show_data_labels) ==
    [axis_titles |-> axis_titles, include_legend |-> include_legend,
     show_data_labels |-> show_data_labels]

ChartOptions == {ChartOption(FALSE, TRUE, FALSE), ChartOption(TRUE, FALSE, TRUE)}

\* Reference(...) accepts any bounds of at least 1; it does not look at the
\* sheet's extent.
ReferenceOk(ref) ==
    ref.min_col >= 1 /\ ref.min_row >= 1 /\ ref.max_col >= 1 /\ ref.max_row >= 1

\* The if/elif chain on chart_type.
ChartKindSupported(chart_type) == chart_type \in ChartKinds

Chart(chart_type, ref, opt) ==
    [kind |-> chart_type, ref |-> ref, legend |-> opt.include_legend,
     labels |-> opt.show_data_labels]

\* The body of the try block: the first statement that raises ends it, and
\* self.sheet.add_chart is its last statement.
create_chart_body(ws, ref, chart_type, opt) ==
    IF ~ReferenceOk(ref) THEN Outcome(ws, "ValueError")
    ELSE IF ~ChartKindSupported(chart_type)
    THEN Outcome(ws, "ValueError: Unsupported chart type")
    ELSE IF opt.axis_titles /\ chart_type = "pie" THEN Outcome(ws, "AttributeError")
    ELSE Outcome([ws EXCEPT !.charts = Append(@, Chart(chart_type, ref, opt))], "ok")

create_chart_out(ws, ref, chart_type, opt) ==
    LogAndReraise(create_chart_body(ws, ref, chart_type, opt))

create_chart(ref, chart_type, opt) ==
    Step("create_chart", create_chart_out(Active, ref, chart_type, opt))

\* ------------------------------------------------------------- set_column_widths
\* The decimal digits of a natural number.
RECURSIVE Digits(_)
Digits(n) == IF n < 10 THEN 1 ELSE 1 + Digits(n \div 10)

\* len(str(cell.value)): "None" for an empty cell, the digits (and sign) of
\* a number, the text itself.
StrLen(v) ==
    IF v[1] = "none" THEN 4
    ELSE IF v[1] = "int" THEN (IF v[2] < 0 THEN 1 + Digits(-v[2]) ELSE Digits(v[2]))
    ELSE Len(v[2])

\* len(cell.value) is defined for text only; for any other value it raises
\* TypeError.
HasLen(v) == v[1] = "str"

\* max_length after the cells of rows 1..r of column c, in row order.
RECURSIVE max_length_by_str(_, _, _)
max_length_by_str(ws, c, r) ==
    IF r = 0 THEN 0
    ELSE LET m == max_length_by_str(ws, c, r - 1)
             v == CellAt(ws, <<r, c>>).value
         IN IF StrLen(v) > m THEN StrLen(v) ELSE m

\* The comparison measures str(cell.value); the assignment takes
\* len(cell.value), and the TypeError it raises for a value that is no text
\* is dropped by `except: pass`, leaving max_length as it was.
RECURSIVE max_length(_, _, _)
max_length(ws, c, r) ==
    IF r = 0 THEN 0
    ELSE LET m == max_length(ws, c, r - 1)
             v == CellAt(ws, <<r, c>>).value
         IN IF StrLen(v) > m /\ HasLen(v) THEN Len(v[2]) ELSE m

\* self.sheet.columns: nothing while _current_row is 0; otherwise the cells
\* of rows 1..max_row of each column 1..max_column, every one of them
\* created if missing.
auto_size_out(ws) ==
    IF ws.cur = 0 THEN ws
    ELSE LET rows == max_row(ws)
             cols == 1..max_column(ws)
             grid == WithCells(ws, [p \in (1..rows) \X cols |-> CellAt(ws, p)])
         IN [grid EXCEPT !.widths =
                [c \in DOMAIN @ \cup cols |->
                   IF c \in cols THEN max_length(grid, c, rows) + 2 ELSE @[c]]]

\* for i, width in enumerate(widths, 1): the i-th width for column i.
fixed_widths_out(ws, widths) ==
    [ws EXCEPT !.widths =
       [c \in DOMAIN @ \cup (1..Len(widths)) |->
          IF c <= Len(widths) THEN widths[c] ELSE @[c]]]

\* auto_size wins over widths; widths=None and an empty list do nothing.
set_column_widths_out(ws, auto_size, widths) ==
    IF auto_size THEN Outcome(auto_size_out(ws), "ok")
    ELSE IF widths # <<>> THEN Outcome(fixed_widths_out(ws, widths), "ok")
    ELSE Outcome(ws, "ok")

set_column_widths(auto_size, widths) ==
    Step("set_column_widths", set_column_widths_out(Active, auto_size, widths))

\* Width lists of every length up to MaxCol; the empty one stands for None.
WidthLists == {[i \in 1..n |-> 10 * i] : n \in 0..MaxCol}

\* ------------------------------------------------------------- apply_conditional_formatting
\* ColorScaleRule(start_type="min", start_color=..., end_type="max", ...)
ColorScaleRule(min_color, max_color) ==
    [start_color |-> min_color, end_color |-> max_color]

\* conditional_formatting.add(cell_range, rule): the range text is parsed
\* (ValueError for text that is no address; a single address is a range of
\* one cell), no cell is created, and the rule is added after the earlier
\* ones. The method has no try block.
apply_conditional_formatting_out(ws, cell_range, min_color, max_color) ==
    IF cell_range.kind = "bad" THEN Outcome(ws, "ValueError")
    ELSE Outcome([ws EXCEPT !.rules =
                    Append(@, [cell_range |-> cell_range,
                               rule |-> ColorScaleRule(min_color, max_color)])],
                 "ok")

apply_conditional_formatting(cell_range, min_color, max_color) ==
    Step("apply_conditional_formatting",
         apply_conditional_formatting_out(Active, cell_range, min_color, max_color))

RuleRanges == {BadRange, CellRef(1, 1), RangeRef(1, 1, MaxRow, 1)}

\* ------------------------------------------------------------- workbook
\* Titles are a base text without digits and a number appended to it (0 for
\* none); the bases used are no part of one another, and the titles a caller
\* asks for carry no number.
SheetNames(book) == {book[i].title : i \in 1..Len(book)}

\* avoid_duplicate_name: a title that is taken gets the next number after the
\* highest one in use for it.
avoid_duplicate_name(names, value) ==
    IF value \in names
    THEN Title(value.b, 1 + SetMax({0} \cup {t.n : t \in {u \in names : u.b = value.b}}))
    ELSE value

\* The title setter of a worksheet: a title equal to the current one is
\* kept, any other is made unique among the workbook's sheet names.
set_title(names, current, value) ==
    IF current = value THEN value ELSE avoid_duplicate_name(names, value)

\* A step on the workbook.
BookStep(op, book, act, names, result, logged) ==
    /\ ops < MaxOps
    /\ ops' = ops + 1
    /\ Len(book) <= MaxSheets
    /\ sheets' = book
    /\ active' = act
    /\ named' = names
    /\ last' = Call(op, result, logged)
    /\ UNCHANGED include_header

RequestedTitles == {Title("Sheet", 0), Title("Data", 0)}

\* ------------------------------------------------------------- set_sheet_name
set_sheet_name(name) ==
    BookStep("set_sheet_name",
             [sheets EXCEPT ![active].title = set_title(SheetNames(sheets), @, name)],
             active, named, "ok", FALSE)

\* ------------------------------------------------------------- create_sheet
\* workbook.create_sheet(title): a new empty sheet at the end, its title set
\* through the title setter.
wb_create_sheet(book, title) ==
    Append(book, NewSheet(avoid_duplicate_name(SheetNames(book), title)))

create_sheet_always_switching(sheet_name, switch_to) ==
    LET book == wb_create_sheet(sheets, sheet_name)
    IN BookStep("create_sheet", book, Len(book), named, "ok", FALSE)

create_sheet(sheet_name, switch_to) ==
    LET book == wb_create_sheet(sheets, sheet_name)
    IN BookStep("create_sheet", book, IF switch_to THEN Len(book) ELSE active,
                named, "ok", FALSE)

\* ------------------------------------------------------------- copy_sheet
SheetIndex(book, title) == CHOOSE i \in 1..Len(book) : book[i].title = title

\* workbook.copy_worksheet(source): a new sheet at the end holding the
\* source's cells with their values and styles and its column widths, and
\* none of its charts or conditional formatting rules. Its title
\* "<source> Copy" is replaced by the next statement.
copy_worksheet(book, source) ==
    LET src == book[source]
    IN Append(book, [title |-> src.title, cells |-> src.cells,
                     cur |-> IF Coords(src) = {} THEN 0 ELSE max_row(src),
                     charts |-> <<>>, widths |-> src.widths, rules |-> <<>>])

\* The try block: the lookup of the source (KeyError when there is none),
\* the copy, and the new title through the title setter.
copy_sheet_book(book, source_sheet_name, new_sheet_name) ==
    IF source_sheet_name \notin SheetNames(book) THEN book
    ELSE LET copied == copy_worksheet(book, SheetIndex(book, source_sheet_name))
         IN [copied EXCEPT ![Len(copied)].title =
                avoid_duplicate_name(SheetNames(book), new_sheet_name)]

copy_sheet(source_sheet_name, new_sheet_name) ==
    BookStep("copy_sheet",
             copy_sheet_book(sheets, source_sheet_name, new_sheet_name),
             active, named, "ok", source_sheet_name \notin SheetNames(sheets))

\* ------------------------------------------------------------- create_pivot_table
\* The sheet "PivotTable" is created first; CacheDefinition then refuses the
\* text given as its cacheSource, and the exception is logged and dropped.
create_pivot_table ==
    BookStep("create_pivot_table", wb_create_sheet(sheets, Title("PivotTable", 0)),
             active, named, "ok", TRUE)

\* ------------------------------------------------------------- create_named_range
DefinedName(name, title, cell_range) ==
    [name |-> name, title |-> title, cell_range |-> cell_range]

NamedRangeTexts == {BadRange, RangeRef(1, 1, MaxRow, MaxCol)}

\* workbook.create_named_range exists in some releases of the library only
\* (api); where it exists it stores the text unchecked and refuses a name
\* that is taken. Every exception is logged and dropped.
create_named_range_names(names, api, name, title, cell_range) ==
    IF ~api \/ name \in {d.name : d \in names} THEN names
    ELSE names \cup {DefinedName(name, title, cell_range)}

create_named_range(api, name, cell_range) ==
    LET names == create_named_range_names(named, api, name, Active.title, cell_range)
    IN BookStep("create_named_range", sheets, active, names, "ok",
                ~api \/ name \in {d.name : d \in named})

\* ------------------------------------------------------------- specification
Next ==
    \/ \E headers \in Headers, start_row \in 0..MaxRow : add_headers(headers, start_row)
    \/ \E data \in DataRows, font \in Fonts, start_row \in StartRows :
         add_row(data, font, start_row)
    \/ \E start_row \in 0..MaxRow, column \in 0..MaxCol :
         auto_number_rows(start_row, column)
    \/ \E start_row \in 0..MaxRow, end_row \in 0..MaxRow, colors \in ColorPairs :
         apply_zebra_striping(start_row, end_row, colors[1], colors[2])
    \/ \E csv_file \in CsvFiles, start_row \in -1..MaxRow :
         import_from_csv(csv_file, start_row)
    \/ \E json_file \in JsonFiles, start_row \in -1..MaxRow :
         import_from_json(json_file, start_row)
    \/ \E cell_range \in RangeTexts, style \in StyleArgs :
         apply_cell_style(cell_range, style)
    \/ \E cell_range \in RangeTexts : apply_formula(cell_range, Formula)
    \/ \E ref \in ChartRefs, chart_type \in ChartTypes, opt \in ChartOptions :
         create_chart(ref, chart_type, opt)
    \/ \E auto_size \in BOOLEAN, widths \in WidthLists :
         set_column_widths(auto_size, widths)
    \/ \E cell_range \in RuleRanges :
         apply_conditional_formatting(cell_range, "FF0000", "00FF00")
    \/ \E name \in RequestedTitles : set_sheet_name(name)
    \/ \E sheet_name \in RequestedTitles, switch_to \in BOOLEAN :
         create_sheet(sheet_name, switch_to)
    \/ \E source \in RequestedTitles \cup {Title("Summary", 0)}, new \in RequestedTitles :
         copy_sheet(source, new)
    \/ create_pivot_table
    \/ \E api \in BOOLEAN, cell_range \in NamedRangeTexts :
         create_named_range(api, "Totals", cell_range)

Spec == Init /\ [][Next]_vars
\* ------------------------------------------------------------- properties
\* The active sheet after the step.
ActiveNext == sheets'[active']

Raised(call) == call.result # "ok"

\* C1: create_chart with a chart kind other than bar, line, pie or scatter
\* always ends in an error that reaches the caller, and the active sheet's
\* chart list is the same after the call as before it.
C1_UnsupportedKindPropagates ==
    [][\A ref \in ChartRefs, chart_type \in ChartTypes \ ChartKinds, opt \in ChartOptions :
         create_chart(ref, chart_type, opt) =>
            /\ Raised(last')
            /\ ActiveNext.charts = Active.charts]_vars

C1_Witness ==
    /\ last.op = "create_chart"
    /\ last.result = "ValueError: Unsupported chart type"

\* C2: create_chart with a data range whose max row exceeds the sheet's
\* max_row, or whose max column exceeds its max column, ends in an error and
\* leaves the chart list unchanged.
C2_OutOfBoundsChartRejected ==
    [][\A ref \in ChartRefs, chart_type \in ChartKinds, opt \in ChartOptions :
         (/\ create_chart(ref, chart_type, opt)
          /\ (ref.max_row > max_row(Active) \/ ref.max_col > max_column(Active))) =>
            /\ Raised(last')
            /\ ActiveNext.charts = Active.charts]_vars

\* C3: copy_sheet ends in an error the caller sees when the source title
\* does not exist or the new title is taken, and the workbook's sheets and
\* titles are then unchanged.
C3_CopySheetFailsVisibly ==
    [][\A source \in RequestedTitles \cup {Title("Summary", 0)}, new \in RequestedTitles :
         (/\ copy_sheet(source, new)
          /\ (source \notin SheetNames(sheets) \/ new \in SheetNames(sheets))) =>
            /\ Raised(last')
            /\ sheets' = sheets]_vars

\* C4: a call of apply_formula, apply_cell_style, create_named_range,
\* copy_sheet or create_pivot_table that cannot make the requested change
\* (range text that is no address, a source sheet that does not exist, a
\* pivot table that is not attached) ends in an error seen by the caller.
C4_StructuralFailuresPropagate ==
    [][(\/ apply_formula(BadRange, Formula)
        \/ \E style \in StyleArgs : apply_cell_style(BadRange, style)
        \/ \E api \in BOOLEAN : create_named_range(api, "Totals", BadRange)
        \/ \E source \in RequestedTitles \cup {Title("Summary", 0)}, new \in RequestedTitles :
             source \notin SheetNames(sheets) /\ copy_sheet(source, new)
        \/ create_pivot_table) =>
            Raised(last')]_vars

\* C5: auto_number_rows(start_row, column) with valid coordinates writes
\* r - start_row + 1 into (r, column) for every row r from start_row to the
\* max_row at the time of the call and touches nothing else; an append
\* changes no cell that exists, so its row holds the appended data, not a
\* number, until auto_number_rows is called again.
C5_Renumber ==
    [][/\ \A start_row \in 1..MaxRow, column \in 1..MaxCol :
            auto_number_rows(start_row, column) =>
               LET rows == start_row..max_row(Active)
               IN /\ \A r \in rows :
                       /\ <<r, column>> \in Coords(ActiveNext)
                       /\ ActiveNext.cells[<<r, column>>].value = Num(r - start_row + 1)
                  /\ Coords(ActiveNext) = Coords(Active) \cup {<<r, column>> : r \in rows}
                  /\ \A p \in Coords(Active) :
                       (p[2] # column \/ p[1] < start_row) =>
                          ActiveNext.cells[p] = Active.cells[p]
       /\ \A data \in DataRows, font \in Fonts :
            add_row(data, font, NoRow) =>
               /\ \A p \in Coords(Active) :
                    p \in Coords(ActiveNext) /\ ActiveNext.cells[p] = Active.cells[p]
               /\ \A p \in Coords(ActiveNext) \ Coords(Active) :
                    ActiveNext.cells[p].value = data[p[2]]]_vars

\* Rows 2..3 numbered 1..2 by a renumbering that followed another call.
C5_Witness ==
    /\ last.op = "auto_number_rows"
    /\ ops = 2
    /\ max_row(Active) = 3
    /\ \A r \in 2..3 :
         <<r, 1>> \in Coords(Active) /\ Active.cells[<<r, 1>>].value = Num(r - 1)

\* C6: with include_header false, add_headers changes nothing of the
\* workbook (no cell value, no style, no extent) for any headers and start
\* row, and returns normally.
C6_HeadersDisabled ==
    [][\A headers \in Headers, start_row \in 0..MaxRow :
         (add_headers(headers, start_row) /\ ~include_header) =>
            /\ sheets' = sheets
            /\ ~Raised(last')]_vars

C6_Witness ==
    /\ last.op = "add_headers"
    /\ ~include_header
    /\ Coords(Active) # {}

\* C7: apply_zebra_striping(start_row, end_row, color1, color2) from a valid
\* start row gives every cell of every row start_row..end_row the fill
\* color2 when the row number is even and color1 when it is odd, whatever
\* the cells hold; it changes no value and no cell of another row.
C7_ZebraByParity ==
    [][\A start_row \in 1..MaxRow, end_row \in 0..MaxRow, colors \in ColorPairs :
         apply_zebra_striping(start_row, end_row, colors[1], colors[2]) =>
            LET rows == start_row..end_row
            IN /\ \A r \in rows, c \in 1..max_column(Active) : <<r, c>> \in Coords(ActiveNext)
               /\ \A p \in Coords(ActiveNext) :
                    p[1] \in rows =>
                       ActiveNext.cells[p].fill =
                          IF p[1] \in {2 * n : n \in 0..MaxRow} THEN colors[2] ELSE colors[1]
               /\ \A p \in Coords(ActiveNext) :
                    ActiveNext.cells[p].value = CellAt(Active, p).value
               /\ \A p \in Coords(Active) :
                    p[1] \notin rows => ActiveNext.cells[p] = Active.cells[p]
               /\ \A p \in Coords(ActiveNext) \ Coords(Active) : p[1] \in rows]_vars

\* Striping that coloured an odd and an even row holding values.
C7_Witness ==
    /\ last.op = "apply_zebra_striping"
    /\ last.result = "ok"
    /\ \E p \in Coords(Active), q \in Coords(Active) :
         /\ p[1] = 2 /\ q[1] = 3
         /\ Active.cells[p].fill \in {"FFFFFF", "F0F0F0"}
         /\ Active.cells[q].fill \in {"FFFFFF", "F0F0F0"}
         /\ Active.cells[p].fill # Active.cells[q].fill
         /\ Active.cells[p].value # None

\* C8 as stated: an append writes data[i] into (max_row + 1, i + 1), max_row
\* being the extent before the call, and max_row is one greater afterwards.
C8_AppendBelowMaxRow ==
    [][\A data \in DataRows, font \in Fonts :
         add_row(data, font, NoRow) =>
            /\ \A i \in 1..Len(data) :
                 /\ <<max_row(Active) + 1, i>> \in Coords(ActiveNext)
                 /\ ActiveNext.cells[<<max_row(Active) + 1, i>>].value = data[i]
            /\ max_row(ActiveNext) = max_row(Active) + 1]_vars

\* C8 amended: an append writes data[i] into (t + 1, i + 1), t being the
\* worksheet's row counter before the call: 0 on a sheet never written,
\* never below a row that holds a cell. Afterwards the counter is t + 1, and
\* so is max_row when data is not empty; no cell that existed is changed.
C8_AppendBelowCurrentRow ==
    [][\A data \in DataRows, font \in Fonts :
         add_row(data, font, NoRow) =>
            LET t == Active.cur
            IN /\ \A p \in Coords(Active) : p[1] <= t
               /\ (ops = 0 /\ Coords(Active) = {}) => t = 0
               /\ \A i \in 1..Len(data) :
                    /\ <<t + 1, i>> \in Coords(ActiveNext)
                    /\ ActiveNext.cells[<<t + 1, i>>].value = data[i]
               /\ ActiveNext.cur = t + 1
               /\ data # <<>> => max_row(ActiveNext) = t + 1
               /\ Coords(ActiveNext) = Coords(Active) \cup {<<t + 1, i>> : i \in 1..Len(data)}
               /\ \A p \in Coords(Active) : ActiveNext.cells[p] = Active.cells[p]]_vars

\* An append that followed another call and wrote below written rows.
C8_Witness ==
    /\ last.op = "add_row"
    /\ ops = 2
    /\ Active.cur = 3
    /\ <<3, 1>> \in Coords(Active)
    /\ Active.cells[<<3, 1>>].value = Text("b")
    /\ <<2, 1>> \in Coords(Active)

\* What an import from start row s >= 1 leaves: row k of the source in row
\* s + k - 1, field j in column j, and every other cell as it was.
Imported(rows, s) ==
    LET written == {p \in (s..(s + Len(rows) - 1)) \X (1..MaxCol) :
                      p[2] <= Len(rows[p[1] - s + 1])}
    IN /\ Coords(ActiveNext) = Coords(Active) \cup written
       /\ \A p \in written : ActiveNext.cells[p].value = rows[p[1] - s + 1][p[2]]
       /\ \A p \in Coords(Active) \ written : ActiveNext.cells[p] = Active.cells[p]
       /\ ~Raised(last')

\* C9: import_from_csv and import_from_json with a start row s >= 1 write
\* the k-th source row (k = 0, 1, ...) into row s + k, field j into column
\* j + 1, in source order; no other cell is modified.
C9_ImportRows ==
    [][\A s \in 1..MaxRow :
         /\ \A file \in CsvFiles \ {NoFile} :
              import_from_csv(file, s) => Imported(file[1], s)
         /\ \A file \in JsonFiles \ {NoFile} :
              import_from_json(file, s) => Imported(file[1], s)]_vars

\* A two-row import written from row 2 on.
C9_Witness ==
    /\ last.op = "import_from_csv"
    /\ last.result = "ok"
    /\ {<<2, 1>>, <<3, 1>>, <<3, 2>>} \subseteq Coords(Active)
    /\ Active.cells[<<2, 1>>].value = Text("x")
    /\ Active.cells[<<3, 1>>].value = Text("y")
    /\ Active.cells[<<3, 2>>].value = Text("z")

\* C10: a row or column coordinate 0 is rejected: add_row and add_headers
\* with start_row 0, auto_number_rows with column 0 and an import with
\* start_row 0, each with something to write, end in an error and write no
\* cell.
C10_ZeroRejected ==
    [][(\/ \E data \in DataRows \ {<<>>}, font \in Fonts : add_row(data, font, Row(0))
        \/ \E headers \in Headers \ {<<>>} : include_header /\ add_headers(headers, 0)
        \/ \E start_row \in 1..max_row(Active) : auto_number_rows(start_row, 0)
        \/ \E file \in CsvFiles \ {NoFile, File(<<>>)} : import_from_csv(file, 0)
        \/ \E file \in JsonFiles \ {NoFile} : import_from_json(file, 0)) =>
            /\ Raised(last')
            /\ sheets' = sheets]_vars

\* No two sheets of the workbook carry the same title.
UniqueTitles(book) ==
    \A i, j \in 1..Len(book) : i # j => book[i].title # book[j].title

\* The sheet a call added at the end of the workbook.
NewestNext == sheets'[Len(sheets')]

\* C11: after any create_sheet, set_sheet_name, copy_sheet or
\* create_pivot_table call no two sheets of the workbook have the same
\* title, and the sheet the call named carries the title that was asked for
\* ("PivotTable" for the pivot sheet).
C11_UniqueRequestedTitles ==
    [][/\ UniqueTitles(sheets')
       /\ \A name \in RequestedTitles :
            /\ set_sheet_name(name) => ActiveNext.title = name
            /\ \A switch_to \in BOOLEAN :
                 create_sheet(name, switch_to) => NewestNext.title = name
            /\ \A source \in SheetNames(sheets) :
                 copy_sheet(source, name) => NewestNext.title = name
       /\ create_pivot_table => NewestNext.title = Title("PivotTable", 0)]_vars

\* C12: the active sheet changes only in create_sheet with switch_to=True,
\* where it becomes the sheet just created; create_sheet with
\* switch_to=False and every other call leave it as it was, and it is always
\* a sheet of the workbook.
C12_ActiveSheetFrame ==
    [][/\ active \in 1..Len(sheets)
       /\ active' \in 1..Len(sheets')
       /\ \A name \in RequestedTitles :
            /\ create_sheet(name, TRUE) =>
                 /\ Len(sheets') = Len(sheets) + 1
                 /\ active' = Len(sheets')
            /\ create_sheet(name, FALSE) => active' = active
       /\ last'.op # "create_sheet" => active' = active
       /\ \A i \in 1..Len(sheets) : i # active => sheets'[i] = sheets[i]]_vars

\* The second sheet was created and made active, and the pivot call that
\* followed added a third sheet and left the second one active.
C12_Witness ==
    /\ last.op = "create_pivot_table"
    /\ Len(sheets) = 3
    /\ active = 2
    /\ sheets[3].title = Title("PivotTable", 0)

\* The lengths of the text values in column c of the sheet.
TextLengths(ws, c) ==
    {Len(ws.cells[p].value[2]) : p \in {q \in Coords(ws) : q[2] = c /\ HasLen(ws.cells[q].value)}}

C14_ExtentNeverShrinks ==
    [][\A i \in 1..Len(sheets) :
         /\ i <= Len(sheets')
         /\ max_row(sheets'[i]) >= max_row(sheets[i])
         /\ max_column(sheets'[i]) >= max_column(sheets[i])
         /\ sheets'[i].cur >= sheets[i].cur
         /\ \A p \in Coords(sheets[i]) :
              /\ p \in Coords(sheets'[i])
              /\ p[1] <= max_row(sheets'[i])
              /\ p[2] <= max_column(sheets'[i])]_vars

\* A row written at row 3 of a new sheet, then headers written at row 1:
\* the extent is still 3 rows.
C14_Witness ==
    /\ last.op = "add_headers"
    /\ last.result = "ok"
    /\ ops = 2
    /\ Coords(Active) = {<<1, 1>>, <<3, 1>>}
    /\ Active.cells[<<3, 1>>].value = Text("b")
    /\ Active.cells[<<1, 1>>].value = Text("H")
    /\ max_row(Active) = 3
    /\ Active.cur = 3
====
